---- MODULE Spec2Model ----
(***************************************************************************)
(* SteamParser (src/main.py): the object graph SteamParser() builds from   *)
(* libraryfolders.vdf, the appmanifest_<id>.acf and appworkshop_<id>.acf   *)
(* files of every library, and the derived properties all_games and        *)
(* size_bytes.                                                             *)
(*                                                                         *)
(* Text read from a manifest is a sequence of one-character strings        *)
(* (<<"1","0","2","4">>); a display name is a sequence of code points, the *)
(* unit Python compares str values by.  vdf.loads is the external parser:  *)
(* a file is absent, malformed (vdf raises) or a tree of keys.             *)
(***************************************************************************)
EXTENDS Integers, Sequences, FiniteSets, TLC

VARIABLES
    pc,               \* position of the program
    libraryfolders,   \* values of the "libraryfolders" block, in file order
    library_paths,    \* find_steam_libraries: libraries constructed so far
    pending,          \* find_steam_libraries: entries still to construct
    self_library,     \* the SteamLibrary whose parse_data is running
    manifests,        \* SteamLibrary.parse_data: manifests still to load
    files,            \* the two manifests on disk for the identifier last loaded
    steam_libraries,  \* SteamParser.steam_libraries
    err,              \* the exception that left SteamParser(), if any
    arg,              \* argument of a utility call (SpecConvertSize, SpecAppState)
    ret               \* its result

vars == <<pc, libraryfolders, library_paths, pending, self_library, manifests,
          files, steam_libraries, err, arg, ret>>

----------------------------------------------------------------------------
(* Bounds of the model.                                                    *)

MaxLibs == 3
MaxApps == 2
MaxGames == 2
MaxListed == 4
MaxSizeBlocks == 16
MaxLowBit == 2

----------------------------------------------------------------------------
(* Python values.                                                          *)

None == [kind |-> "None"]

\* An exception of class type raised by the statement at line "at" of main.py.
Raise(type, at) == [kind |-> "raise", type |-> type, at |-> at]

\* The same exception seen from the statement at line "at" that made the call.
At(r, at) == [r EXCEPT !.at = at]

Value(v) == [kind |-> "value", value |-> v]

IsRaise(r) == r.kind = "raise"

Digit == [c \in {"0", "1", "2", "3", "4", "5", "6", "7", "8", "9"} |->
            CASE c = "0" -> 0 [] c = "1" -> 1 [] c = "2" -> 2 [] c = "3" -> 3
              [] c = "4" -> 4 [] c = "5" -> 5 [] c = "6" -> 6 [] c = "7" -> 7
              [] c = "8" -> 8 [] c = "9" -> 9]

RECURSIVE DigitsValue(_)
DigitsValue(t) ==
    IF t = <<>> THEN 0
    ELSE 10 * DigitsValue(SubSeq(t, 1, Len(t) - 1)) + Digit[t[Len(t)]]

AllDigits(t) == t # <<>> /\ \A k \in 1..Len(t) : t[k] \in DOMAIN Digit

\* int(text) of the builtin, for text made of an optional sign and decimal
\* digits: anything else raises ValueError.
ParseInt(t) ==
    IF t # <<>> /\ t[1] \in {"-", "+"}
    THEN IF AllDigits(Tail(t))
         THEN Value((IF t[1] = "-" THEN -1 ELSE 1) * DigitsValue(Tail(t)))
         ELSE Raise("ValueError", 0)
    ELSE IF AllDigits(t) THEN Value(DigitsValue(t))
         ELSE Raise("ValueError", 0)

\* str(n) for an integer n >= 0, as an f-string renders it.
RECURSIVE IntStr(_)
IntStr(n) ==
    LET d == CASE n % 10 = 0 -> "0" [] n % 10 = 1 -> "1" [] n % 10 = 2 -> "2"
               [] n % 10 = 3 -> "3" [] n % 10 = 4 -> "4" [] n % 10 = 5 -> "5"
               [] n % 10 = 6 -> "6" [] n % 10 = 7 -> "7" [] n % 10 = 8 -> "8"
               [] n % 10 = 9 -> "9"
    IN  IF n < 10 THEN d ELSE IntStr(n \div 10) \o d

----------------------------------------------------------------------------
(* Utilities.convert_size                                                  *)

size_name == <<"B", "KB", "MB", "GB", "TB", "PB", "EB", "ZB", "YB">>

RECURSIVE Pow1024(_)
Pow1024(i) == IF i = 0 THEN 1 ELSE 1024 * Pow1024(i - 1)

\* int(math.floor(math.log(n, 1024))) for 0 < n < 1024^3, where the float
\* logarithm falls on the right side of every power of 1024.
RECURSIVE FloorLog1024(_)
FloorLog1024(n) == IF n < 1024 THEN 0 ELSE 1 + FloorLog1024(n \div 1024)

\* round(n / p, 2) in hundredths: n / p is exact for a power of two p, and
\* round() rounds the exact value, a tie to the even hundredth.
RoundHundredths(n, p) ==
    LET whole == n \div p
        num   == (n % p) * 100
        q     == num \div p
        r     == num % p
        frac  == IF 2 * r > p \/ (2 * r = p /\ q % 2 = 1) THEN q + 1 ELSE q
    IN  whole * 100 + frac

\* repr of the float h / 100: the shortest decimal, with at least one
\* fractional digit.
FloatStr(h) ==
    LET whole == h \div 100
        frac  == h % 100
    IN  IntStr(whole) \o "." \o
        (IF frac % 10 = 0 THEN IntStr(frac \div 10)
         ELSE IF frac < 10 THEN "0" \o IntStr(frac)
         ELSE IntStr(frac))

\* convert_size with the zero case widened to "not positive".
ConvertSizeNonPositive(size_bytes) ==
    IF size_bytes <= 0 THEN Value("0 B")
    ELSE LET i == FloorLog1024(size_bytes)
             p == Pow1024(i)
             s == RoundHundredths(size_bytes, p)
         IN  IF i + 1 > Len(size_name) THEN Raise("IndexError", 18)
             ELSE Value(FloatStr(s) \o " " \o size_name[i + 1])

convert_size(size_bytes) ==
    IF size_bytes = 0 THEN Value("0 B")
    ELSE IF size_bytes < 0 THEN Raise("ValueError", 15)
    ELSE LET i == FloorLog1024(size_bytes)
             p == Pow1024(i)
             s == RoundHundredths(size_bytes, p)
         IN  IF i + 1 > Len(size_name) THEN Raise("IndexError", 18)
             ELSE Value(FloatStr(s) \o " " \o size_name[i + 1])

----------------------------------------------------------------------------
(* SteamGame.AppState, an enum.IntFlag: an integer read as a set of bits.   *)

AppStateMembers ==
    [StateInvalid |-> 0, StateUninstalled |-> 1, StateUpdateRequired |-> 2,
     StateFullyInstalled |-> 4, StateEncrypted |-> 8, StateLocked |-> 16,
     StateFilesMissing |-> 32, StateAppRunning |-> 64,
     StateFilesCorrupt |-> 128, StateUpdateRunning |-> 256,
     StateUpdatePaused |-> 512, StateUpdateStarted |-> 1024,
     StateUninstalling |-> 2048, StateBackupRunning |-> 4096,
     StateReconfiguring |-> 65536, StateValidating |-> 131072,
     StateAddingFiles |-> 262144, StatePreallocating |-> 524288,
     StateDownloading |-> 1048576, StateStaging |-> 2097152,
     StateCommitting |-> 4194304, StateUpdateStopping |-> 8388608]

AppStateValues == {AppStateMembers[m] : m \in DOMAIN AppStateMembers}

RECURSIVE Pow2(_)
Pow2(k) == IF k = 0 THEN 1 ELSE 2 * Pow2(k - 1)

BitPositions == 0..30

Bits(n) == {k \in BitPositions : (n \div Pow2(k)) % 2 = 1}

RECURSIVE BitsValue(_)
BitsValue(S) ==
    IF S = {} THEN 0
    ELSE LET k == CHOOSE x \in S : TRUE IN Pow2(k) + BitsValue(S \ {k})

\* AppState(n) with every bit outside the named members refused, as a Flag
\* with a strict boundary does.
AppStateStrict(n) ==
    IF Bits(n) \subseteq UNION {Bits(v) : v \in AppStateValues}
    THEN Value([bits |-> Bits(n)])
    ELSE Raise("ValueError", 88)

\* AppState(n), n >= 0: IntFlag keeps every bit of n, named or not.
AppState(n) == Value([bits |-> Bits(n)])

\* int(state)
AppStateInt(state) == BitsValue(state.bits)

\* flag in state, IntFlag.__contains__: flag & state == flag
AppStateContains(state, flag) == Bits(flag) \subseteq state.bits

----------------------------------------------------------------------------
(* vdf.loads and the dicts it returns.                                     *)

Absent == [kind |-> "absent"]

Malformed == [kind |-> "malformed"]

Tree(t) == [kind |-> "tree", tree |-> t]

EmptyDict == [k \in {} |-> None]

Has(d, k) == k \in DOMAIN d

Without(d, k) == [x \in DOMAIN d \ {k} |-> d[x]]

With(d, k, v) == [x \in DOMAIN d \cup {k} |-> IF x = k THEN v ELSE d[x]]

\* bool(d) of a dict or None
Truthy(d) == d # None /\ DOMAIN d # {}

\* os.path.join of a library path and further segments
PathJoin(path, segments) == path \o segments

----------------------------------------------------------------------------
(* WorkshopData                                                            *)

WorkshopBool(workshop_data) == Truthy(workshop_data.data)

\* WorkshopData(data): __init__ and parse_data
WorkshopData(d) ==
    IF ~Truthy(d) THEN Value([data |-> d])
    ELSE IF ~Has(d, "AppWorkshop") THEN Raise("KeyError", 33)
    ELSE LET workshop_data == d["AppWorkshop"] IN
         IF ~Has(workshop_data, "appid") THEN Raise("KeyError", 35)
         ELSE IF ~Has(workshop_data, "SizeOnDisk") THEN Raise("KeyError", 38)
         ELSE LET n == ParseInt(workshop_data["SizeOnDisk"]) IN
              IF IsRaise(n) THEN At(n, 38)
              ELSE LET size == convert_size(n.value) IN
                   IF IsRaise(size) THEN At(size, 39)
                   ELSE Value([data |-> d, library |-> d["library"],
                               appid |-> workshop_data["appid"],
                               path |-> PathJoin(d["library"],
                                          <<"steamapps", "workshop", "content",
                                            workshop_data["appid"]>>),
                               size_bytes |-> n.value,
                               size |-> size.value])

----------------
(* SteamGame                                                               *)

\* self.AppState(int(game_data["StateFlags"]))
DecodeStateFlags(text) ==
    LET n == ParseInt(text) IN
    IF IsRaise(n) THEN At(n, 88) ELSE AppState(n.value)

\* self.size_bytes = int(...); self.size = Utilities.convert_size(...)
GameSize(text) ==
    LET n == ParseInt(text) IN
    IF IsRaise(n) THEN At(n, 91)
    ELSE LET size == convert_size(n.value) IN
         IF IsRaise(size) THEN At(size, 92)
         ELSE Value([size_bytes |-> n.value, size |-> size.value])

\* SteamGame(data): __init__ and parse_data
SteamGame(d) ==
    LET workshop == WorkshopData(d["workshop"]) IN
    IF IsRaise(workshop) THEN workshop
    ELSE IF ~Has(d, "AppState") THEN Raise("KeyError", 84)
    ELSE LET game_data == d["AppState"] IN
         IF ~Has(game_data, "appid") THEN Raise("KeyError", 86)
         ELSE IF ~Has(game_data, "name") THEN Raise("KeyError", 87)
         ELSE IF ~Has(game_data, "StateFlags") THEN Raise("KeyError", 88)
         ELSE LET state == DecodeStateFlags(game_data["StateFlags"]) IN
              IF IsRaise(state) THEN state
              ELSE IF ~Has(game_data, "installdir") THEN Raise("KeyError", 89)
              ELSE IF ~Has(game_data, "SizeOnDisk") THEN Raise("KeyError", 91)
              ELSE LET sz == GameSize(game_data["SizeOnDisk"]) IN
                   IF IsRaise(sz) THEN sz
                   ELSE Value([library |-> d["library"],
                               workshop_data |-> workshop.value,
                               appid |-> game_data["appid"],
                               name |-> game_data["name"],
                               state |-> state.value,
                               path |-> PathJoin(d["library"],
                                          <<"steamapps", "common",
                                            game_data["installdir"]>>),
                               size_bytes |-> sz.value.size_bytes,
                               size |-> sz.value.size])

\* str.__lt__ on code-point sequences
StrLt(x, y) ==
    \E k \in 1..(Len(y)) :
        /\ \A j \in 1..(k - 1) : j <= Len(x) /\ x[j] = y[j]
        /\ k - 1 <= Len(x)
        /\ (k > Len(x) \/ x[k] < y[k])

\* SteamGame.__gt__(self, other): self.name > other, other a str
SteamGameGt(self, other) == StrLt(other, self.name)

\* SteamGame.__lt__ comparing display names without regard to case
SteamGameLtFolded(self, other) ==
    LET fold(s) == [k \in 1..Len(s) |->
                      IF s[k] >= 65 /\ s[k] <= 90 THEN s[k] + 32 ELSE s[k]]
    IN  StrLt(fold(self.name), fold(other.name))

\* SteamGame.__lt__(self, other): self.name < other with other a SteamGame;
\* str.__lt__ returns NotImplemented and Python evaluates the reflected
\* other.__gt__(self.name).
SteamGameLt(self, other) == SteamGameGt(other, self.name)

----------------------------------------------------------------------------
(* SteamLibrary                                                            *)

\* One pass of the loop over manifests, with every exception of the add-on
\* manifest taken for its absence.
LoadManifestCatchAll(library, game_file, workshop_file) ==
    IF game_file.kind = "absent" THEN Raise("FileNotFoundError", 117)
    ELSE IF game_file.kind = "malformed" THEN Raise("SyntaxError", 118)
    ELSE LET workshop == IF workshop_file.kind = "tree"
                         THEN With(workshop_file.tree, "library", library)
                         ELSE None
         IN  Value(With(With(game_file.tree, "workshop", workshop),
                        "library", library))

\* One pass of the loop over manifests, up to data["library"] = self: the
\* data dict, or the exception of open() or vdf.loads.
LoadManifest(library, game_file, workshop_file) ==
    IF game_file.kind = "absent" THEN Raise("FileNotFoundError", 117)
    ELSE IF game_file.kind = "malformed" THEN Raise("SyntaxError", 118)
    ELSE IF workshop_file.kind = "malformed"
         THEN Raise("SyntaxError", 122)
    ELSE LET workshop == IF workshop_file.kind = "absent" THEN None
                         ELSE With(workshop_file.tree, "library", library)
         IN  Value(With(With(game_file.tree, "workshop", workshop),
                        "library", library))

\* SteamLibrary.size_bytes with the add-on content counted too.
SteamLibrarySizeWithWorkshop(library) ==
    LET RECURSIVE Sum(_)
        Sum(k) ==
            IF k = 0 THEN 0
            ELSE Sum(k - 1) + library.games[k].size_bytes
                 + (IF WorkshopBool(library.games[k].workshop_data)
                    THEN library.games[k].workshop_data.size_bytes ELSE 0)
    IN  Sum(Len(library.games))

\* SteamLibrary.size_bytes: sum([game.size_bytes for game in self.games])
SteamLibrarySize(library) ==
    LET RECURSIVE Sum(_)
        Sum(k) == IF k = 0 THEN 0
                  ELSE Sum(k - 1) + library.games[k].size_bytes
    IN  Sum(Len(library.games))

----------------------------------------------------------------------------
(* SteamParser                                                             *)

\* for library in self.steam_libraries: for game in library.games
RECURSIVE GameList(_)
GameList(libraries) ==
    IF libraries = <<>> THEN <<>>
    ELSE Head(libraries).games \o GameList(Tail(libraries))

\* list.sort(): a stable insertion by the elements' "<".
RECURSIVE SortGames(_)
SortGames(game_list) ==
    IF game_list = <<>> THEN <<>>
    ELSE LET n      == Len(game_list)
             sorted == SortGames(SubSeq(game_list, 1, n - 1))
             game   == game_list[n]
             after  == {j \in 1..Len(sorted) : SteamGameLt(game, sorted[j])}
             at     == IF after = {} THEN Len(sorted) + 1
                       ELSE CHOOSE j \in after : \A m \in after : j <= m
         IN  SubSeq(sorted, 1, at - 1) \o <<game>>
             \o SubSeq(sorted, at, Len(sorted))

\* SteamParser.all_games
AllGames(libraries) == SortGames(GameList(libraries))

\* SteamParser.size_bytes without the add-on content.
SteamParserSizeGamesOnly(libraries) ==
    LET game_list == GameList(libraries)
        RECURSIVE Sum(_)
        Sum(k) == IF k = 0 THEN 0 ELSE Sum(k - 1) + game_list[k].size_bytes
    IN  Sum(Len(game_list))

\* SteamParser.size_bytes
SteamParserSize(libraries) ==
    LET game_list == GameList(libraries)
        RECURSIVE Sum(_)
        Sum(k) ==
            IF k = 0 THEN 0
            ELSE LET game == game_list[k] IN
                 Sum(k - 1) + game.size_bytes
                 + (IF WorkshopBool(game.workshop_data)
                    THEN game.workshop_data.size_bytes ELSE 0)
    IN  Sum(Len(game_list))

\* [i for i in library_data["libraryfolders"].values()] sliced from 0.
LibrarySliceAll(values) == values

\* [i for i in library_data["libraryfolders"].values()][1:]
LibrarySlice(values) == IF values = <<>> THEN <<>> ELSE Tail(values)

----------------------------------------------------------------------------
(* The files the program reads.                                            *)

Text(n) == LET RECURSIVE Chars(_)
               Chars(m) ==
                   LET c == CHOOSE x \in DOMAIN Digit : Digit[x] = m % 10
                   IN  IF m < 10 THEN <<c>> ELSE Append(Chars(m \div 10), c)
           IN  Chars(n)

Alpha == <<65, 108, 112, 104, 97>>

alpha == <<97, 108, 112, 104, 97>>

Beta == <<66, 101, 116, 97>>

Names == {Alpha, alpha, Beta}

\* the k-th app identifier of a library's "apps" block
AppKey(k) == Text(10 * k)

GameManifest(appid, name, size) ==
    [AppState |-> [appid |-> appid, name |-> name, StateFlags |-> Text(4),
                   installdir |-> <<"dir">> \o appid, SizeOnDisk |-> size]]

WorkshopManifest(appid, size) ==
    [AppWorkshop |-> [appid |-> appid, SizeOnDisk |-> size]]

\* appmanifest_<appid>.acf files from which a SteamGame can be constructed
GoodGameFiles(appid) ==
    {Tree(GameManifest(appid, n, s)) : n \in Names, s \in {Text(0), Text(1024)}}

\* appmanifest_<appid>.acf files that are missing, unreadable or incomplete
BadGameFiles(appid) ==
    LET whole == GameManifest(appid, Alpha, Text(1024)) IN
    {Absent, Malformed, Tree(EmptyDict)}
    \cup {Tree(GameManifest(appid, Beta, s)) :
            s \in {<<"-">> \o Text(1), <<"-">> \o Text(1024), <<"x">>, <<>>}}
    \cup {Tree([AppState |-> Without(whole.AppState, k)]) :
            k \in DOMAIN whole.AppState}
    \cup {Tree([AppState |-> With(whole.AppState, "StateFlags", <<"x">>)])}

\* appworkshop_<appid>.acf: not there, or with the fields WorkshopData reads
GoodWorkshopFiles ==
    {Absent, Tree(WorkshopManifest(AppKey(1), Text(0))),
     Tree(WorkshopManifest(AppKey(2), Text(1536)))}

\* appworkshop_<appid>.acf files that are there and unreadable or incomplete
BadWorkshopFiles ==
    LET whole == WorkshopManifest(AppKey(1), Text(1536)) IN
    {Malformed, Tree(EmptyDict)}
    \cup {Tree(WorkshopManifest(AppKey(1), s)) :
            s \in {<<"-">> \o Text(1), <<"x">>}}
    \cup {Tree([AppWorkshop |-> Without(whole.AppWorkshop, k)]) :
            k \in DOMAIN whole.AppWorkshop}

\* The two manifests found for one identifier of an "apps" block.
ManifestFiles(appid) ==
    (GoodGameFiles(appid) \X GoodWorkshopFiles)
    \cup (BadGameFiles(appid) \X {Absent})
    \cup ({Tree(GameManifest(appid, Beta, <<"-">> \o Text(0))),
           Tree(GameManifest(AppKey(MaxApps + 1), Beta, Text(0)))} \X {Absent})
    \cup ({Tree(GameManifest(appid, Alpha, Text(1024)))} \X BadWorkshopFiles)

\* The manifests of installations that differ in their display names only.
ListingFiles(appid) ==
    {Tree(GameManifest(appid, n, Text(1024))) : n \in Names} \X {Absent}

LibraryPath(i) == <<"lib", i>>

RECURSIVE TotalApps(_)
TotalApps(counts) ==
    IF counts = <<>> THEN 0 ELSE Head(counts) + TotalApps(Tail(counts))

\* The values of the "libraryfolders" block: every entry a path and an
\* ordered "apps" block, at most max_games identifiers in all.
LibraryFolders(max_games) ==
    {[i \in 1..Len(counts) |->
        [path |-> LibraryPath(i),
         apps |-> [k \in 1..counts[i] |-> AppKey(k)]]] :
       counts \in {c \in UNION {[1..m -> 0..MaxApps] : m \in 0..MaxLibs} :
                     TotalApps(c) <= max_games}}

----------------------------------------------------------------------------
(* SteamParser(): the construction, one library and one manifest at a time. *)

\* no identifier of the running parse_data has been loaded yet
NoFiles == <<None, None>>

Idle ==
    /\ library_paths = <<>>
    /\ pending = <<>>
    /\ self_library = None
    /\ manifests = <<>>
    /\ files = NoFiles
    /\ steam_libraries = <<>>
    /\ err = None

Init ==
    /\ pc = "start"
    /\ libraryfolders \in LibraryFolders(MaxGames)
    /\ Idle
    /\ arg = None
    /\ ret = None

\* SteamParser.__init__ calls find_steam_libraries, which reads
\* libraryfolders.vdf and slices the entries.
FindSteamLibraries ==
    /\ pc = "start"
    /\ pending' = LibrarySlice(libraryfolders)
    /\ library_paths' = <<>>
    /\ pc' = "libraries"
    /\ UNCHANGED <<libraryfolders, self_library, manifests, files,
                   steam_libraries, err, arg, ret>>

\* SteamLibrary(library): __init__ and parse_data up to the list of manifests.
SteamLibraryInit ==
    /\ pc = "libraries"
    /\ pending # <<>>
    /\ self_library' = [path |-> Head(pending).path, games |-> <<>>]
    /\ manifests' = Head(pending).apps
    /\ pending' = Tail(pending)
    /\ files' = NoFiles
    /\ pc' = "manifests"
    /\ UNCHANGED <<libraryfolders, library_paths, steam_libraries, err,
                   arg, ret>>

\* One pass of "for manifest in manifests" over the manifests on_disk: both
\* files are read and the SteamGame is constructed and appended, or an
\* exception leaves SteamParser().
LoadOne(on_disk) ==
    LET loaded == LoadManifest(self_library.path, on_disk[1], on_disk[2])
        game   == SteamGame(loaded.value)
    IN  /\ files' = on_disk
        /\ IF IsRaise(loaded)
           THEN /\ pc' = "raised"
                /\ err' = loaded
                /\ UNCHANGED <<self_library, manifests>>
           ELSE IF IsRaise(game)
           THEN /\ pc' = "raised"
                /\ err' = game
                /\ UNCHANGED <<self_library, manifests>>
           ELSE /\ pc' = "manifests"
                /\ err' = err
                /\ self_library' =
                       [self_library EXCEPT !.games = Append(@, game.value)]
                /\ manifests' = Tail(manifests)

SteamLibraryManifest ==
    /\ pc = "manifests"
    /\ manifests # <<>>
    /\ \E on_disk \in ManifestFiles(Head(manifests)) : LoadOne(on_disk)
    /\ UNCHANGED <<libraryfolders, library_paths, pending, steam_libraries,
                   arg, ret>>

\* parse_data returns: library_paths.append(SteamLibrary(library))
SteamLibraryDone ==
    /\ pc = "manifests"
    /\ manifests = <<>>
    /\ library_paths' = Append(library_paths, self_library)
    /\ self_library' = None
    /\ files' = NoFiles
    /\ pc' = "libraries"
    /\ UNCHANGED <<libraryfolders, pending, manifests, steam_libraries,
                   err, arg, ret>>

\* find_steam_libraries returns and __init__ assigns self.steam_libraries.
SteamParserDone ==
    /\ pc = "libraries"
    /\ pending = <<>>
    /\ steam_libraries' = library_paths
    /\ pc' = "constructed"
    /\ UNCHANGED <<libraryfolders, library_paths, pending, self_library,
                   manifests, files, err, arg, ret>>

Next ==
    \/ FindSteamLibraries
    \/ SteamLibraryInit
    \/ SteamLibraryManifest
    \/ SteamLibraryDone
    \/ SteamParserDone

Spec == Init /\ [][Next]_vars

----------------------------------------------------------------------------
(* The construction over installations that differ in their names only,    *)
(* for the listing.                                                        *)

InitListing ==
    /\ pc = "start"
    /\ libraryfolders \in LibraryFolders(MaxListed)
    /\ Idle
    /\ arg = None
    /\ ret = None

SteamLibraryListed ==
    /\ pc = "manifests"
    /\ manifests # <<>>
    /\ \E on_disk \in ListingFiles(Head(manifests)) : LoadOne(on_disk)
    /\ UNCHANGED <<libraryfolders, library_paths, pending, steam_libraries,
                   arg, ret>>

NextListing ==
    \/ FindSteamLibraries
    \/ SteamLibraryInit
    \/ SteamLibraryListed
    \/ SteamLibraryDone
    \/ SteamParserDone

SpecListing == InitListing /\ [][NextListing]_vars

----------------------------------------------------------------------------
(* Utilities.convert_size and SteamGame.AppState called on their own.      *)

SizeArgs ==
    {128 * k + d : k \in 0..MaxSizeBlocks, d \in {-1, 0, 1}}
    \cup {Pow1024(2) + d : d \in {-1, 0, 1}}

InitConvertSize ==
    /\ pc = "convert_size"
    /\ arg \in SizeArgs
    /\ ret = None
    /\ libraryfolders = <<>>
    /\ Idle

ConvertSizeCall ==
    /\ pc = "convert_size"
    /\ ret' = convert_size(arg)
    /\ pc' = "returned"
    /\ UNCHANGED <<libraryfolders, library_paths, pending, self_library,
                   manifests, files, steam_libraries, err, arg>>

SpecConvertSize == InitConvertSize /\ [][ConvertSizeCall]_vars

FlagBits == (0..MaxLowBit) \cup {12, 13, 23, 24}

StateFlagsTexts ==
    {Text(BitsValue(S)) : S \in SUBSET FlagBits} \cup {<<"x">>, <<>>}

InitAppState ==
    /\ pc = "AppState"
    /\ arg \in StateFlagsTexts
    /\ ret = None
    /\ libraryfolders = <<>>
    /\ Idle

AppStateCall ==
    /\ pc = "AppState"
    /\ ret' = DecodeStateFlags(arg)
    /\ pc' = "returned"
    /\ UNCHANGED <<libraryfolders, library_paths, pending, self_library,
                   manifests, files, steam_libraries, err, arg>>

SpecAppState == InitAppState /\ [][AppStateCall]_vars

----------------------------------------------------------------------------
(* What the claims speak of.                                               *)

\* the installations of a sequence of libraries, as (library, position) pairs
Installations(libraries) ==
    UNION {{<<l, g>> : g \in 1..Len(libraries[l].games)} :
             l \in 1..Len(libraries)}

GameAt(libraries, i) == libraries[i[1]].games[i[2]]

\* library order, then the order of the library's apps sequence
RECURSIVE EncounterIndex(_, _)
EncounterIndex(libraries, i) ==
    IF i[1] = 1 THEN i[2]
    ELSE Len(libraries[i[1] - 1].games)
         + EncounterIndex(libraries, <<i[1] - 1, i[2]>>)

\* the sum of the values of a function of finite domain
RECURSIVE SumOf(_)
SumOf(f) ==
    IF DOMAIN f = {} THEN 0
    ELSE LET x == CHOOSE y \in DOMAIN f : TRUE
         IN  f[x] + SumOf([y \in DOMAIN f \ {x} |-> f[y]])

SumOver(S, f(_)) == SumOf([x \in S |-> f(x)])

\* the add-on manifest of the installation was found
AddOnPresent(game) == game.workshop_data.data # None

AddOnBytes(game) ==
    IF AddOnPresent(game) THEN game.workshop_data.size_bytes ELSE 0

\* every SteamLibrary constructed so far, the one under construction included
BuiltLibraries ==
    library_paths \o (IF self_library = None THEN <<>> ELSE <<self_library>>)

\* ordinal comparison of two names: the first differing code decides, and a
\* proper prefix comes first
OrdinalLeq(x, y) ==
    LET n    == IF Len(x) < Len(y) THEN Len(x) ELSE Len(y)
        diff == {k \in 1..n : x[k] # y[k]}
        d    == CHOOSE k \in diff : \A m \in diff : k <= m
    IN  IF diff = {} THEN Len(x) <= Len(y) ELSE x[d] < y[d]

IsSigned(t) == t # <<>> /\ t[1] \in {"-", "+"}

IsNumeral(t) ==
    LET digits == IF IsSigned(t) THEN Tail(t) ELSE t
    IN  /\ digits # <<>>
        /\ \A k \in 1..Len(digits) :
             digits[k] \in {"0", "1", "2", "3", "4", "5", "6", "7", "8", "9"}

\* text that is no number, or that denotes a number below zero
NotUnsigned(t) ==
    \/ ~IsNumeral(t)
    \/ /\ t[1] = "-"
       /\ \E k \in 2..Len(t) : t[k] # "0"

\* lines of main.py that read the add-on manifest
WorkshopLines == {121, 122, 31, 33, 35, 36, 38, 39}

\* an add-on manifest that is there, and unreadable or without a field
\* WorkshopData requires
PresentButBad(file) ==
    \/ file.kind = "malformed"
    \/ /\ file.kind = "tree"
       /\ \/ ~("AppWorkshop" \in DOMAIN file.tree)
          \/ ~({"appid", "SizeOnDisk"} \subseteq DOMAIN file.tree["AppWorkshop"])

----------------------------------------------------------------------------
(* Claims.                                                                 *)

\* C1: in every constructed graph SteamParser.size_bytes is the sum, over
\* every installation of every library, of the installation's size plus its
\* add-on content's size when the add-on is present (nothing when absent),
\* an add-on of size 0 included.
C1_GlobalTotal ==
    pc = "constructed" =>
        LET size(i) == GameAt(steam_libraries, i).size_bytes
                       + AddOnBytes(GameAt(steam_libraries, i))
        IN  SteamParserSize(steam_libraries)
              = SumOver(Installations(steam_libraries), size)

\* Two libraries are constructed; an installation of the first has an add-on
\* of size 0 and one of the second an add-on of 1536 bytes.
C1_Witness ==
    /\ pc = "constructed"
    /\ Len(steam_libraries) >= 2
    /\ \E g \in 1..Len(steam_libraries[1].games) :
         LET game == steam_libraries[1].games[g] IN
         AddOnPresent(game) /\ game.workshop_data.size_bytes = 0
         /\ game.size_bytes > 0
    /\ \E g \in 1..Len(steam_libraries[2].games) :
         LET game == steam_libraries[2].games[g] IN
         AddOnPresent(game) /\ game.workshop_data.size_bytes = 1536

\* C2: SteamLibrary.size_bytes is the sum of the sizes of the library's
\* installations only, and the global total exceeds the sum of the
\* per-library totals by exactly the sum of the present add-on sizes.
C2_LibraryTotal ==
    pc = "constructed" =>
        LET libs == steam_libraries
            own(l) ==
                LET size(g) == libs[l].games[g].size_bytes
                IN  SumOver(1..Len(libs[l].games), size)
            total(l) == SteamLibrarySize(libs[l])
            addon(i) == AddOnBytes(GameAt(libs, i))
        IN  /\ \A l \in 1..Len(libs) : SteamLibrarySize(libs[l]) = own(l)
            /\ SteamParserSize(libs) - SumOver(1..Len(libs), total)
                 = SumOver(Installations(libs), addon)

\* A library whose two installations both have add-on content of 1536 bytes.
C2_Witness ==
    /\ pc = "constructed"
    /\ \E l \in 1..Len(steam_libraries) :
         LET games == steam_libraries[l].games IN
         /\ Len(games) = 2
         /\ \A g \in 1..2 : AddOnPresent(games[g])
                            /\ games[g].workshop_data.size_bytes = 1536
                            /\ games[g].size_bytes = 1024

\* C3: all_games holds every installation of every library exactly once, in
\* ascending ordinal (case-sensitive) order of the display names, equal names
\* in encounter order; "Alpha", "alpha", "Beta" come out as "Alpha", "Beta",
\* "alpha".
C3_Listing ==
    pc = "constructed" =>
        LET libs    == steam_libraries
            listing == AllGames(libs)
            at(i)   == CHOOSE k \in 1..Len(listing) :
                         listing[k] = GameAt(libs, i)
            names(q) == [k \in 1..Len(q) |-> q[k].name]
        IN  /\ Len(listing) = Cardinality(Installations(libs))
            /\ \A i \in Installations(libs) :
                 Cardinality({k \in 1..Len(listing) :
                                listing[k] = GameAt(libs, i)}) = 1
            /\ \A k \in 1..(Len(listing) - 1) :
                 OrdinalLeq(listing[k].name, listing[k + 1].name)
            /\ \A i, j \in Installations(libs) :
                 /\ GameAt(libs, i).name = GameAt(libs, j).name
                 /\ EncounterIndex(libs, i) < EncounterIndex(libs, j)
                 => at(i) < at(j)
            /\ {listing[k].name : k \in 1..Len(listing)} = Names
               /\ Len(listing) = 3
               => names(listing) = <<Alpha, Beta, alpha>>

\* Installations named "Alpha", "alpha", "Beta" were met in that order, in
\* two libraries, and are listed as "Alpha", "Beta", "alpha".
C3_Witness ==
    /\ pc = "constructed"
    /\ Len(steam_libraries) = 2
    /\ Len(GameList(steam_libraries)) = 3
    /\ [k \in 1..3 |-> GameList(steam_libraries)[k].name]
         = <<Alpha, alpha, Beta>>
    /\ [k \in 1..3 |-> AllGames(steam_libraries)[k].name]
         = <<Alpha, Beta, alpha>>

\* C4: a failure while constructing one Installation does not prevent the
\* others from being processed: the installations constructed from valid
\* manifests are exposed as results.
C4_FailureIsolated ==
    pc = "raised" =>
        \A i \in Installations(BuiltLibraries) :
            \E j \in Installations(steam_libraries) :
                GameAt(steam_libraries, j) = GameAt(BuiltLibraries, i)

\* C5: an absent add-on manifest is no error, leaves the installation with
\* falsy workshop_data and adds no add-on bytes to the global total; an
\* add-on manifest that is there but malformed or without a required field
\* is an error, never taken for absent or for size zero.
C5_AbsentAddOn ==
    /\ files[2] = Absent =>
         /\ pc = "raised" => err.at \notin WorkshopLines
         /\ pc = "manifests" =>
              LET game == self_library.games[Len(self_library.games)]
              IN  /\ ~WorkshopBool(game.workshop_data)
                  /\ ~AddOnPresent(game)
    /\ files[1].kind = "tree" /\ PresentButBad(files[2]) =>
         /\ pc = "raised"
         /\ err.at \in WorkshopLines
    /\ pc = "constructed" =>
         LET libs == steam_libraries
             own(i) == GameAt(libs, i).size_bytes
             both(i) == GameAt(libs, i).size_bytes
                        + GameAt(libs, i).workshop_data.size_bytes
             absent == {i \in Installations(libs) :
                          GameAt(libs, i).workshop_data.data = None}
         IN  SteamParserSize(libs)
               = SumOver(absent, own)
                 + SumOver(Installations(libs) \ absent, both)

\* After an installation without add-on manifest was constructed, the next
\* identifier's add-on manifest is malformed and the construction raises.
C5_Witness ==
    /\ pc = "raised"
    /\ files[2] = Malformed
    /\ err = Raise("SyntaxError", 122)
    /\ Len(self_library.games) = 1
    /\ self_library.games[1].workshop_data.data = None
    /\ ~WorkshopBool(self_library.games[1].workshop_data)

\* C6: a size-on-disk text that is non-numeric or denotes a negative number
\* makes the construction fail, so every constructed Installation and
\* AddOnContent has size_bytes >= 0, and so has every per-library and global
\* total.
C6_UnsignedSizes ==
    /\ \A i \in Installations(BuiltLibraries) :
         LET game == GameAt(BuiltLibraries, i) IN
         /\ game.size_bytes >= 0
         /\ AddOnPresent(game) => game.workshop_data.size_bytes >= 0
    /\ \A l \in 1..Len(BuiltLibraries) :
         SteamLibrarySize(BuiltLibraries[l]) >= 0
    /\ SteamParserSize(BuiltLibraries) >= 0
    /\ SteamParserSize(steam_libraries) >= 0
    /\ /\ files[1].kind = "tree"
       /\ "AppState" \in DOMAIN files[1].tree
       /\ "SizeOnDisk" \in DOMAIN files[1].tree["AppState"]
       /\ NotUnsigned(files[1].tree["AppState"]["SizeOnDisk"])
       => pc = "raised" /\ err.type = "ValueError"
    /\ /\ files[1].kind = "tree"
       /\ files[2].kind = "tree"
       /\ "AppWorkshop" \in DOMAIN files[2].tree
       /\ {"appid", "SizeOnDisk"} \subseteq DOMAIN files[2].tree["AppWorkshop"]
       /\ NotUnsigned(files[2].tree["AppWorkshop"]["SizeOnDisk"])
       => pc = "raised" /\ err.type = "ValueError"

\* After an installation of size 0 was constructed, a manifest whose size is
\* "-1" makes the construction raise.
C6_Witness ==
    /\ pc = "raised"
    /\ files[1].kind = "tree"
    /\ "AppState" \in DOMAIN files[1].tree
    /\ "SizeOnDisk" \in DOMAIN files[1].tree["AppState"]
    /\ files[1].tree["AppState"]["SizeOnDisk"] = <<"-", "1">>
    /\ err = Raise("ValueError", 92)
    /\ Len(self_library.games) = 1
    /\ self_library.games[1].size_bytes = 0

\* C7: in every constructed graph the identifier of an installation's add-on
\* content equals the identifier of the installation, whatever the two
\* manifests contain.
C7_AddOnIdentifier ==
    pc = "constructed" =>
        \A i \in Installations(steam_libraries) :
            LET game == GameAt(steam_libraries, i) IN
            AddOnPresent(game) => game.workshop_data.appid = game.appid

\* C8: decoding the base-10 integer n gives a bit-set of raw value n; a named
\* non-zero flag b is a member iff n AND b = b (5 holds exactly the flags 1
\* and 4); bits outside the named flags are kept and never make it fail.
C8_StateFlags ==
    pc = "returned" /\ IsNumeral(arg) /\ ~IsSigned(arg) =>
        LET n == DigitsValue(arg)
            named == AppStateValues \ {0}
        IN  /\ ret.kind = "value"
            /\ AppStateInt(ret.value) = n
            /\ \A b \in named :
                 AppStateContains(ret.value, b) <=> (n \div b) % 2 = 1
            /\ n = 5 =>
                 {b \in named : AppStateContains(ret.value, b)} = {1, 4}

\* 8197 = 8192 + 4 + 1 was decoded: 8192 is no named flag.
C8_Witness ==
    /\ pc = "returned"
    /\ arg = <<"8", "1", "9", "7">>
    /\ ret.kind = "value"
    /\ AppStateInt(ret.value) = 8197
    /\ AppStateContains(ret.value, 4)
    /\ 8192 \notin AppStateValues

\* C9: convert_size is defined for every byte count n >= 0 and returns "0 B"
\* for 0, "1 KB" for 1024 and "1.5 KB" for 1536.
C9_ConvertSize ==
    pc = "returned" /\ arg >= 0 =>
        /\ ret.kind = "value"
        /\ arg = 0 => ret.value = "0 B"
        /\ arg = 1024 => ret.value = "1 KB"
        /\ arg = 1536 => ret.value = "1.5 KB"

\* C10: find_steam_libraries constructs one SteamLibrary for each entry of
\* the "libraryfolders" block after the first, in file order, and none for
\* the first; the first entry's installations are in neither all_games nor
\* the global total, and a block of one entry gives an empty inventory of
\* total 0.
C10_FirstEntryDropped ==
    pc = "constructed" =>
        LET n == Len(libraryfolders) IN
        /\ Len(steam_libraries) = IF n = 0 THEN 0 ELSE n - 1
        /\ \A k \in 1..Len(steam_libraries) :
             /\ steam_libraries[k].path = libraryfolders[k + 1].path
             /\ Len(steam_libraries[k].games) = Len(libraryfolders[k + 1].apps)
             /\ \A g \in 1..Len(steam_libraries[k].games) :
                  steam_libraries[k].games[g].library = libraryfolders[k + 1].path
        /\ n >= 1 =>
             \A k \in 1..Len(AllGames(steam_libraries)) :
                 AllGames(steam_libraries)[k].library # libraryfolders[1].path
        /\ n = 1 => /\ AllGames(steam_libraries) = <<>>
                    /\ SteamParserSize(steam_libraries) = 0

\* The first of three entries has an identifier in its apps block, and a
\* later entry's installation is listed.
C10_Witness ==
    /\ pc = "constructed"
    /\ Len(libraryfolders) = 3
    /\ libraryfolders[1].apps # <<>>
    /\ Len(steam_libraries) = 2
    /\ AllGames(steam_libraries) # <<>>

====
